---- MODULE Spec2Model ----
(***************************************************************************)
(* North Indian cuisine search system: the batched ingestion pipeline     *)
(* (build_vector_database.py, load_data.py), the document builders        *)
(* (clean_process_indian_food.py), the store set-up and the complete      *)
(* build (build_vector_database.py, quick_db_rebuild.py) and the          *)
(* confidence-scored retrieval and display functions                      *)
(* (build_vector_database.py, rag_enhancer.py, streamlit_rag_app_fixed.py) *)
(* as a state machine.  The vector store and the embedding model are      *)
(* collaborators: a collection is the sequence of entries it holds, `add` *)
(* inserts the entries whose id is not stored yet, `encode` maps a text   *)
(* to its vector.                                                         *)
(***************************************************************************)
EXTENDS Integers, Sequences, FiniteSets, TLC

VARIABLES
    collections,         \* self.collections: name -> sequence of stored entries
    documents,           \* _store_documents_batch: the documents argument
    collection_name,     \* _store_documents_batch: the collection_name argument
    batch_size,          \* _store_documents_batch: the batch_size argument
    i,                   \* loop offset of `for i in range(0, total_docs, batch_size)`
    retry,               \* loop variable of `for retry in range(max_retries)`
    embeddings_list,     \* embeddings of the current batch
    successful_batches,  \* counter of batches whose add returned
    pc,                  \* position inside _store_documents_batch
    stored_reported,     \* the number printed by "Stored N documents"
    warned,              \* whether the "may have failed to store" warning was printed
    log,                 \* observable steps of the current call, in order
    run,                 \* number of completed calls of _store_documents_batch
    count1,              \* collection count() after the first completed call
    faults,              \* collaborator failures injected so far
    path,                \* which entry point drives the ingestion
    data,                \* the loaded JSON: recipes and rag_documents
    stage,               \* position inside process_and_store_documents / load_recipe_data
    search,              \* outcome of the last search call
    build,               \* position and outcome of the store set-up / complete build
    built,               \* calls of the document builders: input and outcome of each
    session_state,       \* st.session_state: key -> value (holds 'rag_metrics')
    evaluated            \* the calls of evaluate_search_results made so far

vars == <<collections, documents, collection_name, batch_size, i, retry,
          embeddings_list, successful_batches, pc, stored_reported, warned,
          log, run, count1, faults, path, data, stage, search, build, built,
         session_state, evaluated>>

----------------------------------------------------------------------------
(* Bounds of the model *)

MaxDocs == 4
MaxBatchSize == 3
MaxFaults == 3
MaxRecipes == 2
MaxIngredients == 4
LargeRecipeCount == 101
LargeIngredientCount == 10
LongRunDocs == 26
LongRunFaults == 1

(* Program constants *)

max_retries == 3
RetryDelayMs == 2000
BatchDelayMs == 500
CheckpointInterval == 25
CheckpointPauseMs == 2000

CollectionNames == {"recipes", "ingredients", "general"}

\* Collaborator failures are injected while fewer than FaultLimit happened;
\* the batch loop over the large data set is run without failures, the long
\* run with few.
FaultLimit ==
    IF path = "long" THEN LongRunFaults
    ELSE IF path # "loader" /\ Len(data.recipes) > MaxRecipes THEN 0
    ELSE MaxFaults

Min(a, b) == IF a < b THEN a ELSE b

----------------------------------------------------------------------------
(* Collaborators *)

\* Variant: every vector is computed from the first text of the call.
EncodeFirstText(txts) == [j \in 1..Len(txts) |-> <<"vec", txts[1]>>]

\* SentenceTransformer.encode(texts).tolist(): one vector per text, in order.
Encode(txts) == [j \in 1..Len(txts) |-> <<"vec", txts[j]>>]

StoredIds(store) == {store[j].id : j \in 1..Len(store)}

Count(store) == Len(store)

\* Variant: the metadatas and embeddings are taken in reverse order.
EntriesMisaligned(ids, txts, metas, embs) ==
    [j \in 1..Len(ids) |->
        [id |-> ids[j], document |-> txts[j],
         metadata |-> metas[Len(ids) + 1 - j],
         embedding |-> embs[Len(ids) + 1 - j]]]

\* The entries a batch hands to collection.add, position-aligned.
Entries(ids, txts, metas, embs) ==
    [j \in 1..Len(ids) |->
        [id |-> ids[j], document |-> txts[j], metadata |-> metas[j],
         embedding |-> embs[j]]]

\* Variant: an add that also raises when one of the ids is already stored.
AddRejectsExisting(store, ids) ==
    \/ \E a, b \in DOMAIN ids : a # b /\ ids[a] = ids[b]
    \/ \E j \in DOMAIN ids : ids[j] \in StoredIds(store)

\* collection.add validates the ids of the call and raises on an id given
\* twice; ids that are already stored are not rejected, the call returns.
AddRejects(store, ids) ==
    \E a, b \in DOMAIN ids : a # b /\ ids[a] = ids[b]

\* The entries of an add that reach the collection: an entry whose id is
\* already stored is left as it is; the others are appended in order.
AddEntries(store, es) ==
    LET stored == StoredIds(store)
    IN store \o SelectSeq(es, LAMBDA e : e.id \notin stored)

\* collection.add(documents, metadatas, embeddings, ids)
CollectionAdd(store, ids, txts, metas, embs) ==
    AddEntries(store, Entries(ids, txts, metas, embs))

----------------------------------------------------------------------------
(* _store_documents_batch *)

total_docs == Len(documents)

BatchEnd(off) == Min(off + batch_size, total_docs)

\* Variant: the slice loses the last document of the batch.
BatchDropsLast(off) == SubSeq(documents, off + 1, BatchEnd(off) - 1)

\* documents[i:batch_end]
Batch(off) == SubSeq(documents, off + 1, BatchEnd(off))

BatchNum(off) == (off \div batch_size) + 1

total_batches == IF total_docs = 0 THEN 0 ELSE ((total_docs - 1) \div batch_size) + 1

Texts(batch) == [j \in 1..Len(batch) |-> batch[j].content]
Ids(batch) == [j \in 1..Len(batch) |-> batch[j].id]
Metadatas(batch) == [j \in 1..Len(batch) |-> batch[j].metadata]

Ev(e, k, idseq, ms) ==
    [coll |-> collection_name, ev |-> e, batch |-> k, ids |-> idseq, ms |-> ms]

\* Variant: one attempt more than max_retries.
RetryAllowedOnceMore(r) == r < max_retries

\* `retry < max_retries - 1`: another attempt follows the failed one.
RetryAllowed(r) == r < max_retries - 1

\* Variant: the failure of a batch ends the loop.
AfterBatchFailureAbort(off) == total_docs

\* `continue` in the outer except: the loop goes on with the next offset.
AfterBatchFailure(off) == off + batch_size

\* Events after a successful add: the inter-batch sleep and, every 25th batch,
\* the checkpoint (persist, gc, pause).
AfterAddEvents(k) ==
    <<Ev("sleep", k, <<>>, BatchDelayMs)>> \o
    (IF k % CheckpointInterval = 0
        THEN <<Ev("checkpoint", k, <<>>, 0), Ev("sleep", k, <<>>, CheckpointPauseMs)>>
        ELSE <<>>)

\* The try block up to the embedding call, when encode returns.
EmbedBatch ==
    /\ pc = "loop"
    /\ i < total_docs
    /\ embeddings_list' = Encode(Texts(Batch(i)))
    /\ retry' = 0
    /\ pc' = "add"
    /\ log' = log \o <<Ev("batch", BatchNum(i), Ids(Batch(i)), 0),
                       Ev("encode", BatchNum(i), <<>>, 0)>>
    /\ UNCHANGED <<collections, documents, collection_name, batch_size, i,
                   successful_batches, stored_reported, warned, run, count1,
                   faults, path, data, stage, search, build, built,
                   session_state, evaluated>>

\* encode raises: the outer except prints and continues with the next batch.
EmbedFails ==
    /\ pc = "loop"
    /\ i < total_docs
    /\ faults < FaultLimit
    /\ faults' = faults + 1
    /\ log' = log \o <<Ev("batch", BatchNum(i), Ids(Batch(i)), 0),
                       Ev("encode_fail", BatchNum(i), <<>>, 0),
                       Ev("failed", BatchNum(i), <<>>, 0)>>
    /\ i' = AfterBatchFailure(i)
    /\ UNCHANGED <<collections, documents, collection_name, batch_size, retry,
                   embeddings_list, successful_batches, pc, stored_reported,
                   warned, run, count1, path, data, stage, search,
                   build, built,
                   session_state, evaluated>>

\* collection.add returns: count the batch, sleep, checkpoint, next batch.
AddSucceeds ==
    /\ pc = "add"
    /\ ~AddRejects(collections[collection_name], Ids(Batch(i)))
    /\ collections' = [collections EXCEPT ![collection_name] =
          CollectionAdd(@, Ids(Batch(i)), Texts(Batch(i)), Metadatas(Batch(i)),
                        embeddings_list)]
    /\ successful_batches' = successful_batches + 1
    /\ log' = log \o <<Ev("add_ok", BatchNum(i), <<>>, 0)>> \o AfterAddEvents(BatchNum(i))
    /\ i' = i + batch_size
    /\ pc' = "loop"
    /\ UNCHANGED <<documents, collection_name, batch_size, retry, embeddings_list,
                   stored_reported, warned, run, count1, faults, path, data,
                   stage, search, build, built,
                   session_state, evaluated>>

\* collection.add raises: sleep and retry, or after the last attempt re-raise
\* into the outer except, which continues with the next batch.
AddRaises ==
    /\ pc = "add"
    /\ \/ AddRejects(collections[collection_name], Ids(Batch(i))) /\ faults' = faults
       \/ /\ ~AddRejects(collections[collection_name], Ids(Batch(i)))
          /\ faults < FaultLimit
          /\ faults' = faults + 1
    /\ IF RetryAllowed(retry)
          THEN /\ retry' = retry + 1
               /\ log' = log \o <<Ev("add_fail", BatchNum(i), <<>>, 0),
                                  Ev("sleep", BatchNum(i), <<>>, RetryDelayMs)>>
               /\ UNCHANGED <<i, pc>>
          ELSE /\ log' = log \o <<Ev("add_fail", BatchNum(i), <<>>, 0),
                                  Ev("failed", BatchNum(i), <<>>, 0)>>
               /\ i' = AfterBatchFailure(i)
               /\ pc' = "loop"
               /\ UNCHANGED retry
    /\ UNCHANGED <<collections, documents, collection_name, batch_size,
                   embeddings_list, successful_batches, stored_reported, warned,
                   run, count1, path, data, stage, search, build, built,
                   session_state, evaluated>>

\* "Stored {successful_batches * batch_size} documents"
StoredReport(ok_batches, bsize) == ok_batches * bsize

\* Variant: the warning also fires when the two numbers are equal.
WarningFiresOrEqual(reported, total) == reported <= total

\* `if successful_batches * batch_size < total_docs`: the warning is printed.
WarningFires(reported, total) == reported < total

\* The loop is over: the two final prints, then the function returns.
Finish ==
    /\ pc = "loop"
    /\ i >= total_docs
    /\ stored_reported' = StoredReport(successful_batches, batch_size)
    /\ warned' = WarningFires(StoredReport(successful_batches, batch_size), total_docs)
    /\ pc' = "returned"
    /\ run' = run + 1
    /\ count1' = IF run = 0 THEN Count(collections[collection_name]) ELSE count1
    /\ UNCHANGED <<collections, documents, collection_name, batch_size, i, retry,
                   embeddings_list, successful_batches, log, faults, path, data,
                   stage, search, build, built,
                   session_state, evaluated>>

----------------------------------------------------------------------------
(* Direct calls of _store_documents_batch on one collection *)

Document(k, cv, mv) ==
    [id |-> <<"recipe", k>>, type |-> "recipe",
     content |-> <<"content", k, cv>>,
     metadata |-> [recipe_name |-> <<"name", k>>, rev |-> mv]]

FirstDocuments(n) == [k \in 1..n |-> Document(k, 1, 1)]

\* The same ids, regenerated with another content or other metadata.
RevisedContent(docs) == [k \in 1..Len(docs) |-> Document(k, 2, 1)]
RevisedMetadata(docs) == [k \in 1..Len(docs) |-> Document(k, 1, 2)]

NoData == [recipes |-> <<>>, rag_documents |-> <<>>]

\* A query result without hits: the parallel arrays are empty.
EmptyHits == [documents |-> <<>>, metadatas |-> <<>>, distances |-> <<>>]

\* What one retrieval call did: the function called, the n_results handed to
\* collection.query, the min_confidence argument (0 where the function has
\* none), whether an exception was raised inside it, the message shown, the
\* hits the store returned and the list the function produced.
SearchRecord(mode, n, mc, err, msg, raw, results) ==
    [mode |-> mode, n_results |-> n, min_confidence |-> mc, error |-> err,
     message |-> msg, raw |-> raw, results |-> results]

NoSearch == SearchRecord("none", 0, 0, FALSE, "", EmptyHits, <<>>)

\* st.session_state of a fresh session: no key.
NoSession == [k \in {} |-> <<>>]

\* `{'queries': [], 'response_times': [], 'confidences': []}`
NoMetrics == [queries |-> <<>>, response_times |-> <<>>, confidences |-> <<>>]

\* A store location without any collection (no database directory).
EmptyStore == [c \in {} |-> <<>>]

\* No set-up or build was started.
NoBuild ==
    [step |-> "none", clean_start |-> FALSE, requested |-> FALSE,
     error |-> "none", result |-> "none", raised |-> "none", before |-> EmptyStore]

\* Entry of _store_documents_batch: the collection handle, total_docs and
\* successful_batches = 0, then the loop starts at offset 0.
EnterStore(docs, name, bsize) ==
    /\ documents' = docs
    /\ collection_name' = name
    /\ batch_size' = bsize
    /\ i' = 0
    /\ retry' = 0
    /\ embeddings_list' = <<>>
    /\ successful_batches' = 0
    /\ pc' = "loop"

StoreDocumentsBatchCall ==
    /\ path = "direct"
    /\ pc \in {"idle", "returned"}
    /\ run \in {0, 1}
    /\ \E bsize \in 1..MaxBatchSize :
          \E docs \in (IF run = 0
                          THEN {FirstDocuments(n) : n \in 0..MaxDocs}
                          ELSE {documents, RevisedContent(documents),
                                RevisedMetadata(documents)}) :
             EnterStore(docs, "recipes", bsize)
    /\ log' = <<>>
    /\ UNCHANGED <<collections, stored_reported, warned, run, count1, faults,
                   path, data, stage, search, build, built,
                   session_state, evaluated>>

Init ==
    /\ collections = [c \in CollectionNames |-> <<>>]
    /\ documents = <<>>
    /\ collection_name = "recipes"
    /\ batch_size = 1
    /\ i = 0
    /\ retry = 0
    /\ embeddings_list = <<>>
    /\ successful_batches = 0
    /\ pc = "idle"
    /\ stored_reported = 0
    /\ warned = FALSE
    /\ log = <<>>
    /\ run = 0
    /\ count1 = 0
    /\ faults = 0
    /\ path = "direct"
    /\ data = NoData
    /\ stage = "start"
    /\ search = NoSearch
    /\ build = NoBuild
    /\ built = <<>>
    /\ session_state = NoSession
    /\ evaluated = <<>>

Next ==
    \/ StoreDocumentsBatchCall
    \/ EmbedBatch
    \/ EmbedFails
    \/ AddSucceeds
    \/ AddRaises
    \/ Finish

Spec == Init /\ [][Next]_vars

----------------------------------------------------------------------------
(* What a call did, read from its log *)

LogIdx(evs, k) == {j \in DOMAIN log : log[j].ev \in evs /\ log[j].batch = k}

Attempts(k) == Cardinality(LogIdx({"add_ok", "add_fail"}, k))
FailedAttempts(k) == Cardinality(LogIdx({"add_fail"}, k))
EncodeCalls(k) == Cardinality(LogIdx({"encode", "encode_fail"}, k))
Started(k) == LogIdx({"batch"}, k) # {}
Embedded(k) == LogIdx({"encode"}, k) # {}
EmbedFailed(k) == LogIdx({"encode_fail"}, k) # {}
Succeeded(k) == LogIdx({"add_ok"}, k) # {}
Failed(k) == LogIdx({"failed"}, k) # {}
Processed(k) == Succeeded(k) \/ Failed(k)

Returned == pc = "returned"

\* ceil(n / b)
CeilDiv(n, b) == (n + b - 1) \div b

\* The documents at input positions (k-1)*b .. min(k*b, n)-1 (0-based).
ExpectedBatch(k) ==
    SubSeq(documents, (k - 1) * batch_size + 1, Min(k * batch_size, total_docs))

BatchNums == 1..CeilDiv(total_docs, batch_size)

HasEntry(store, d) ==
    \E j \in DOMAIN store :
        /\ store[j].id = d.id
        /\ store[j].document = d.content
        /\ store[j].metadata = d.metadata

UniqueIds(store) ==
    \A a, b \in DOMAIN store : store[a].id = store[b].id => a = b

RECURSIVE SumLen(_)
SumLen(ks) ==
    IF ks = {} THEN 0
    ELSE LET k == CHOOSE x \in ks : TRUE
         IN Len(ExpectedBatch(k)) + SumLen(ks \ {k})

----------------------------------------------------------------------------
(* C1 - Idempotence of ingestion: a second fault-free run of the batched
   store operation on the same document sequence leaves count() as the first
   run left it, and marks no batch of the second run as failed. *)
C1_Idempotent ==
    (Returned /\ run = 2 /\ faults = 0 /\ documents = FirstDocuments(total_docs))
        => /\ Count(collections[collection_name]) = count1
           /\ count1 = total_docs
           /\ \A k \in BatchNums : ~Failed(k)

C1_Witness ==
    /\ Returned /\ run = 2 /\ faults = 0
    /\ documents = FirstDocuments(total_docs)
    /\ total_docs = 3 /\ batch_size = 2
    /\ Count(collections[collection_name]) = 3

(* C2 - Overwrite by id: a collection never holds two entries with one id,
   and after a batch was written the stored entry of each of its ids carries
   the content and metadata of the document just ingested. *)
C2_OverwriteById ==
    /\ \A c \in CollectionNames : UniqueIds(collections[c])
    /\ Returned =>
          \A k \in BatchNums : Succeeded(k) =>
             \A j \in DOMAIN ExpectedBatch(k) :
                HasEntry(collections[collection_name], ExpectedBatch(k)[j])

(* C3 - Partial-failure containment: when a batch failed all its write
   attempts, every later batch was still processed by the time the call
   returns, and the documents of every later batch whose write succeeded are
   stored. *)
C3_Containment ==
    Returned =>
       \A k \in BatchNums : (Failed(k) /\ FailedAttempts(k) = max_retries) =>
          \A k2 \in BatchNums : k2 > k =>
             /\ Processed(k2)
             /\ Succeeded(k2) =>
                   \A j \in DOMAIN ExpectedBatch(k2) :
                      ExpectedBatch(k2)[j].id \in StoredIds(collections[collection_name])

C3_Witness ==
    /\ Returned
    /\ \E k \in BatchNums :
          /\ Failed(k) /\ FailedAttempts(k) = max_retries
          /\ \A k2 \in BatchNums : k2 # k => Succeeded(k2)
          /\ \E k2 \in BatchNums : k2 > k

\* Between two write attempts of one batch lies exactly the retry sleep, and
\* nothing is attempted after the successful write.
AttemptsSeparated ==
    \A j \in DOMAIN log :
       /\ log[j].ev = "add_fail" =>
             (j < Len(log) =>
                \/ log[j+1].ev = "failed" /\ log[j+1].batch = log[j].batch
                \/ /\ log[j+1].ev = "sleep" /\ log[j+1].ms = RetryDelayMs
                   /\ log[j+1].batch = log[j].batch
                   /\ j + 1 < Len(log) =>
                         /\ log[j+2].ev \in {"add_ok", "add_fail"}
                         /\ log[j+2].batch = log[j].batch)
       /\ log[j].ev = "add_ok" =>
             \A j2 \in DOMAIN log :
                (j2 > j /\ log[j2].batch = log[j].batch) =>
                   log[j2].ev \notin {"add_ok", "add_fail"}

RetryBounds(k) ==
    /\ Attempts(k) >= 1
    /\ Attempts(k) <= 3
    /\ Failed(k) => FailedAttempts(k) = 3
    /\ Succeeded(k) => Attempts(k) = FailedAttempts(k) + 1

(* C4 as stated - Bounded retry: every batch gets at least one and at most
   3 write attempts, none after its first success, is marked failed only
   after exactly 3 failed write attempts, and a fixed delay separates
   consecutive attempts. *)
C4_BoundedRetryEveryBatch ==
    /\ AttemptsSeparated
    /\ \A k \in BatchNums : Processed(k) => RetryBounds(k)

(* C4 as amended - Bounded retry for every batch whose embedding call
   returned: such a batch gets at least one and at most 3 write attempts,
   none after its first success, is marked failed only after exactly 3
   failed write attempts, and the fixed retry delay separates consecutive
   attempts; a batch whose embedding call raised gets no write attempt. *)
C4_BoundedRetry ==
    /\ AttemptsSeparated
    /\ \A k \in BatchNums :
          /\ (Processed(k) /\ Embedded(k)) => RetryBounds(k)
          /\ EmbedFailed(k) => (Attempts(k) = 0 /\ Failed(k))

C4_Witness ==
    /\ Returned
    /\ \E k \in BatchNums : Failed(k) /\ Embedded(k) /\ FailedAttempts(k) = 3
    /\ \E k \in BatchNums : Succeeded(k) /\ Attempts(k) = 1

(* C5 - Transient embedding failures are retried: a batch whose embedding
   call failed is marked failed only after more than one embedding attempt
   (one embedding failure alone does not lose the batch). *)
C5_EmbeddingRetried ==
    \A k \in BatchNums : (Failed(k) /\ EmbedFailed(k)) => EncodeCalls(k) > 1

(* C6 - Failures are never silent: when the call returns, the end-of-ingest
   warning was printed exactly when at least one batch ended as failed, and
   then the reported stored count is strictly less than the total. *)
C6_FailuresSurfaced ==
    (Returned /\ total_docs >= 1) =>
        /\ warned <=> (\E k \in BatchNums : Failed(k))
        /\ warned => stored_reported < total_docs

C6_Witness ==
    /\ Returned /\ warned
    /\ total_docs = 3 /\ batch_size = 2
    /\ Succeeded(1) /\ Failed(2)

(* C7 - Accurate succeeded count: when the call returns, the reported number
   of stored documents equals the number of documents in the batches whose
   write succeeded, and never exceeds the number of documents attempted. *)
C7_AccurateCount ==
    Returned =>
        /\ stored_reported = SumLen({k \in BatchNums : Succeeded(k)})
        /\ stored_reported <= total_docs

(* C8 - Batch partitioning: the call processes exactly ceil(n/b) batches in
   increasing index order, batch k holding the documents at positions
   (k-1)*b .. min(k*b, n)-1 in input order; with no failed batch, ingestion
   into an empty collection leaves count() = n. *)
C8_Partition ==
    Returned =>
        LET starts == SelectSeq(log, LAMBDA e : e.ev = "batch")
        IN /\ Len(starts) = CeilDiv(total_docs, batch_size)
           /\ \A k \in DOMAIN starts :
                 /\ starts[k].batch = k
                 /\ starts[k].ids = Ids(ExpectedBatch(k))
           /\ (run = 1 /\ \A k \in BatchNums : Succeeded(k))
                 => Count(collections[collection_name]) = total_docs

C8_Witness ==
    /\ Returned /\ run = 1
    /\ total_docs = 3 /\ batch_size = 2
    /\ Succeeded(1) /\ Succeeded(2)
    /\ Count(collections[collection_name]) = 3

----------------------------------------------------------------------------
(* Document builder: clean_process_indian_food.py *)

MinIngredients == 3
DefaultBatchSize == 20
GeneralPrefix == 5
LoaderRecipeBatchSize == 10
LoaderIngredientBatchSize == 50
LoaderIngredientLimit == 1000
LoaderGeneralLimit == 100
LoaderGeneralPrefix == 3

\* Cleaned ingredient names; one name occurs twice.
Pantry == <<"paneer", "butter", "cream", "paneer", "lentils", "onion",
            "tomato", "ginger", "garlic", "cumin", "turmeric", "ghee">>

IngredientsOf(n) == [p \in 1..n |-> Pantry[((p - 1) % Len(Pantry)) + 1]]

\* recipe_data of process_kaggle_dataset: kept only with 3+ ingredients,
\* id from the running number, ingredient_count = len(ingredients).
Recipe(k, ings) ==
    [id |-> <<"recipe", k>>, name |-> <<"name", k>>, cuisine |-> "North Indian",
     course |-> "unknown", ingredients |-> ings, ingredient_count |-> Len(ings),
     source |-> "kaggle_archanas_kitchen", region |-> "north_india"]

\* ", ".join(ingredients): the names in order.
JoinComma(ings) == ings

\* Variant: the builder numbers its calls and stamps the number on the document.
RecipeDocStamped(recipe) ==
    [id |-> recipe.id, type |-> "recipe",
     content |-> <<"Recipe", recipe.name, recipe.cuisine, recipe.course,
                   recipe.ingredient_count, JoinComma(recipe.ingredients)>>,
     metadata |-> [recipe_name |-> recipe.name, cuisine |-> recipe.cuisine,
                   course |-> recipe.course, region |-> recipe.region,
                   ingredient_count |-> recipe.ingredient_count,
                   all_ingredients |-> JoinComma(recipe.ingredients),
                   source |-> recipe.source, build_no |-> Len(built)]]

RecipeDoc(recipe) ==
    [id |-> recipe.id, type |-> "recipe",
     content |-> <<"Recipe", recipe.name, recipe.cuisine, recipe.course,
                   recipe.ingredient_count, JoinComma(recipe.ingredients)>>,
     metadata |-> [recipe_name |-> recipe.name, cuisine |-> recipe.cuisine,
                   course |-> recipe.course, region |-> recipe.region,
                   ingredient_count |-> recipe.ingredient_count,
                   all_ingredients |-> JoinComma(recipe.ingredients),
                   source |-> recipe.source]]

\* The decimal digits of n, most significant first.
RECURSIVE Digits(_)
Digits(n) == IF n < 10 THEN <<n>> ELSE Digits(n \div 10) \o <<n % 10>>

\* The format `:02d`: the decimal digits, padded with zeros on the left to a
\* width of two; a number of three digits keeps its three digits.
Format02d(n) == IF n < 10 THEN <<0, n>> ELSE Digits(n)

\* Variant: the 0-based index is formatted.
IngredientDocIdZeroBased(recipe, p) ==
    recipe.id \o <<"_ing_">> \o Format02d(p - 1)

\* f"{recipe['id']}_ing_{i+1:02d}" for the ingredient at 0-based index i.
IngredientDocId(recipe, p) == recipe.id \o <<"_ing_">> \o Format02d(p)

IngredientDoc(recipe, p) ==
    [id |-> IngredientDocId(recipe, p), type |-> "ingredient_usage",
     content |-> <<"Ingredient", recipe.ingredients[p], recipe.name,
                   recipe.cuisine, recipe.course>>,
     metadata |-> [ingredient_name |-> recipe.ingredients[p],
                   recipe_name |-> recipe.name, cuisine |-> recipe.cuisine,
                   course |-> recipe.course, region |-> recipe.region,
                   source |-> recipe.source]]

\* Variant: enumerate starts one position late, the first ingredient gets no document.
IngredientDocsSkipFirst(recipe) ==
    [q \in 1..(Len(recipe.ingredients) - 1) |-> IngredientDoc(recipe, q + 1)]

\* `for i, ingredient in enumerate(recipe['ingredients'])`
IngredientDocs(recipe) ==
    [p \in 1..Len(recipe.ingredients) |-> IngredientDoc(recipe, p)]

\* The documents of the recipes at positions lo..hi, in order: the recipe
\* document, then its ingredient documents.
RECURSIVE DocsOfRange(_, _, _)
DocsOfRange(all_recipes, lo, hi) ==
    IF lo > hi THEN <<>>
    ELSE IF lo = hi
            THEN <<RecipeDoc(all_recipes[lo])>> \o IngredientDocs(all_recipes[lo])
            ELSE LET mid == (lo + hi) \div 2
                 IN DocsOfRange(all_recipes, lo, mid)
                    \o DocsOfRange(all_recipes, mid + 1, hi)

\* `for recipe in all_recipes`: rag_documents in recipe order.
GenerateRagDocuments(all_recipes) == DocsOfRange(all_recipes, 1, Len(all_recipes))

\* clean_dataset of process_and_export: the recipes and their documents.
CleanDataset(recipes) ==
    [recipes |-> recipes, rag_documents |-> GenerateRagDocuments(recipes)]

SmallDatasets ==
    {CleanDataset([k \in DOMAIN counts |-> Recipe(k, IngredientsOf(counts[k]))]) :
        counts \in UNION {[1..n -> MinIngredients..MaxIngredients] : n \in 1..MaxRecipes}}

LargeDataset ==
    CleanDataset([k \in 1..LargeRecipeCount |->
                     Recipe(k, IngredientsOf(LargeIngredientCount))])

\* A document of the data file that the generator did not write.
ForeignDoc(recipe, t) ==
    [id |-> <<"general">> \o recipe.id, type |-> t,
     content |-> <<"Pregenerated", t, recipe.name>>,
     metadata |-> [recipe_name |-> recipe.name]]

\* A data file whose rag_documents also hold documents of other types: a
\* pre-generated 'general_info' document in front and a 'note' at the end.
MixedDataset ==
    LET recipes == [k \in 1..MaxRecipes |-> Recipe(k, IngredientsOf(MinIngredients))]
    IN [recipes |-> recipes,
        rag_documents |->
            <<ForeignDoc(recipes[1], "general_info")>> \o
            GenerateRagDocuments(recipes) \o
            <<ForeignDoc(recipes[MaxRecipes], "note")>>]

----------------------------------------------------------------------------
(* process_and_store_documents: build_vector_database.py *)

\* Variant: the whole sequence, whatever the length asked for.
PrefixWhole(seq, n) == seq

\* seq[:n]
Prefix(seq, n) == SubSeq(seq, 1, Min(n, Len(seq)))

\* Variant: the documents of type 'general_info' pass every type filter.
OfTypeOrGeneralInfo(docs, t) ==
    SelectSeq(docs, LAMBDA d : d.type = t \/ d.type = "general_info")

OfType(docs, t) == SelectSeq(docs, LAMBDA d : d.type = t)

recipe_docs == OfType(data.rag_documents, "recipe")
ingredient_docs == OfType(data.rag_documents, "ingredient_usage")

GeneralDoc(recipe) ==
    [id |-> <<"general">> \o recipe.id, type |-> "general_info",
     content |-> <<"General", recipe.course, recipe.name, recipe.cuisine,
                   recipe.ingredient_count,
                   JoinComma(Prefix(recipe.ingredients, GeneralPrefix))>>,
     metadata |-> [recipe_name |-> recipe.name, cuisine |-> recipe.cuisine,
                   course |-> recipe.course, region |-> recipe.region,
                   ingredient_count |-> recipe.ingredient_count,
                   source |-> recipe.source]]

CreateGeneralDocuments(recipes) == [k \in 1..Len(recipes) |-> GeneralDoc(recipes[k])]

\* The stage entered after `stage`: the recipe and ingredient calls are made
\* only for non-empty lists, the general call always.
BuilderNextStage ==
    LET afterRecipes == IF ingredient_docs # <<>> THEN "ingredients" ELSE "general"
    IN CASE stage = "start" -> IF recipe_docs # <<>> THEN "recipes" ELSE afterRecipes
         [] stage = "recipes" -> afterRecipes
         [] OTHER -> "general"

BuilderDocs(st) ==
    CASE st = "recipes" -> recipe_docs
      [] st = "ingredients" -> ingredient_docs
      [] OTHER -> CreateGeneralDocuments(data.recipes)

\* process_and_store_documents runs when it is called directly, or as step 5
\* of build_complete_system once the collections were created.
BuilderActive ==
    \/ path = "builder"
    \/ path = "build" /\ build.step = "collections"

\* One call of _store_documents_batch made by process_and_store_documents.
ProcessAndStoreDocuments ==
    /\ BuilderActive
    /\ \/ stage = "start" /\ pc = "idle"
       \/ stage \in {"recipes", "ingredients"} /\ pc = "returned"
    /\ stage' = BuilderNextStage
    /\ EnterStore(BuilderDocs(BuilderNextStage), BuilderNextStage, batch_size)
    /\ UNCHANGED <<collections, stored_reported, warned, log, run, count1,
                   faults, path, data, search, build, built,
                   session_state, evaluated>>

BuilderDone == path = "builder" /\ stage = "general" /\ pc = "returned"

----------------------------------------------------------------------------
(* load_recipe_data: load_data.py *)

LoaderEntries(batch) ==
    Entries(Ids(batch), Texts(batch), Metadatas(batch), Encode(Texts(batch)))

\* documents[i:i+batch_size]
Slice(docs, off, size) == SubSeq(docs, off + 1, Min(off + size, Len(docs)))

\* min(1000, len(ingredient_docs)): "Load first 1000 for speed".
LoaderIngredientStop == Min(LoaderIngredientLimit, Len(ingredient_docs))

LoaderGeneralDoc(recipe) ==
    [id |-> <<"general">> \o recipe.id,
     content |-> <<"General", recipe.course, recipe.name, recipe.cuisine,
                   recipe.ingredient_count,
                   JoinComma(Prefix(recipe.ingredients, LoaderGeneralPrefix))>>,
     metadata |-> [recipe_name |-> recipe.name, cuisine |-> recipe.cuisine,
                   course |-> recipe.course,
                   ingredient_count |-> recipe.ingredient_count]]

\* general_docs built from data['recipes'][:100]
LoaderGeneralDocs ==
    [k \in 1..Min(LoaderGeneralLimit, Len(data.recipes)) |->
        LoaderGeneralDoc(data.recipes[k])]

\* The stage of the loader after the recipe loop.
LoaderAfterRecipes == IF ingredient_docs # <<>> THEN "ingredients" ELSE "general"

\* Lines 13-41: the data is read, the collections are fetched, the documents
\* are separated by type.
LoaderStart ==
    /\ path = "loader"
    /\ stage = "start"
    /\ stage' = IF recipe_docs # <<>> THEN "recipes" ELSE LoaderAfterRecipes
    /\ i' = 0
    /\ UNCHANGED <<collections, documents, collection_name, batch_size, retry,
                   embeddings_list, successful_batches, pc, stored_reported,
                   warned, log, run, count1, faults, path, data, search,
                   build, built,
                   session_state, evaluated>>

\* One iteration of the recipe loop (batch_size = 10).
LoaderRecipeBatch ==
    /\ path = "loader"
    /\ stage = "recipes"
    /\ collections' = [collections EXCEPT !["recipes"] =
          AddEntries(@, LoaderEntries(Slice(recipe_docs, i, LoaderRecipeBatchSize)))]
    /\ IF i + LoaderRecipeBatchSize < Len(recipe_docs)
          THEN i' = i + LoaderRecipeBatchSize /\ UNCHANGED stage
          ELSE i' = 0 /\ stage' = LoaderAfterRecipes
    /\ UNCHANGED <<documents, collection_name, batch_size, retry, embeddings_list,
                   successful_batches, pc, stored_reported, warned, log, run,
                   count1, faults, path, data, search, build, built,
                   session_state, evaluated>>

\* One iteration of the ingredient loop (batch_size = 50, first 1000 only).
LoaderIngredientBatch ==
    /\ path = "loader"
    /\ stage = "ingredients"
    /\ collections' = [collections EXCEPT !["ingredients"] =
          AddEntries(@, LoaderEntries(Slice(ingredient_docs, i, LoaderIngredientBatchSize)))]
    /\ IF i + LoaderIngredientBatchSize < LoaderIngredientStop
          THEN i' = i + LoaderIngredientBatchSize /\ UNCHANGED stage
          ELSE i' = 0 /\ stage' = "general"
    /\ UNCHANGED <<documents, collection_name, batch_size, retry, embeddings_list,
                   successful_batches, pc, stored_reported, warned, log, run,
                   count1, faults, path, data, search, build, built,
                   session_state, evaluated>>

\* The general documents are added in one call, then the counts are printed.
LoaderGeneral ==
    /\ path = "loader"
    /\ stage = "general"
    /\ collections' = [collections EXCEPT !["general"] =
          IF LoaderGeneralDocs # <<>>
             THEN AddEntries(@, LoaderEntries(LoaderGeneralDocs))
             ELSE @]
    /\ stage' = "done"
    /\ UNCHANGED <<documents, collection_name, batch_size, i, retry,
                   embeddings_list, successful_batches, pc, stored_reported,
                   warned, log, run, count1, faults, path, data, search,
                   build, built,
                   session_state, evaluated>>

\* Variant: the exception is swallowed and the load goes on at its stage.
LoaderAfterRaiseContinues(st) == st

\* No try/except in load_recipe_data: the exception leaves the function.
LoaderAfterRaise(st) == "raised"

\* encode or add raises inside the loader: nothing catches it, the load ends.
LoaderRaises ==
    /\ path = "loader"
    /\ \/ stage \in {"recipes", "ingredients"}
       \/ stage = "general" /\ LoaderGeneralDocs # <<>>
    /\ faults < FaultLimit
    /\ faults' = faults + 1
    /\ stage' = LoaderAfterRaise(stage)
    /\ UNCHANGED <<collections, documents, collection_name, batch_size, i, retry,
                   embeddings_list, successful_batches, pc, stored_reported,
                   warned, log, run, count1, path, data, search,
                   build, built,
                   session_state, evaluated>>

LoaderDone == path = "loader" /\ stage = "done"

----------------------------------------------------------------------------
(* The two ingestion paths over a data set, from empty collections *)

InitPaths ==
    /\ collections = [c \in CollectionNames |-> <<>>]
    /\ documents = <<>>
    /\ collection_name = "recipes"
    /\ i = 0
    /\ retry = 0
    /\ embeddings_list = <<>>
    /\ successful_batches = 0
    /\ pc = "idle"
    /\ stored_reported = 0
    /\ warned = FALSE
    /\ log = <<>>
    /\ run = 0
    /\ count1 = 0
    /\ faults = 0
    /\ stage = "start"
    /\ search = NoSearch
    /\ build = NoBuild
    /\ built = <<>>
    /\ session_state = NoSession
    /\ evaluated = <<>>
    /\ path \in {"builder", "loader"}
    /\ data \in SmallDatasets \cup {LargeDataset, MixedDataset}
    /\ batch_size = DefaultBatchSize

NextPaths ==
    \/ ProcessAndStoreDocuments
    \/ EmbedBatch
    \/ EmbedFails
    \/ AddSucceeds
    \/ AddRaises
    \/ Finish
    \/ LoaderStart
    \/ LoaderRecipeBatch
    \/ LoaderIngredientBatch
    \/ LoaderGeneral
    \/ LoaderRaises

SpecPaths == InitPaths /\ [][NextPaths]_vars

RECURSIVE SumCountRange(_, _, _)
SumCountRange(recipes, lo, hi) ==
    IF lo > hi THEN 0
    ELSE IF lo = hi THEN recipes[lo].ingredient_count
    ELSE LET mid == (lo + hi) \div 2
         IN SumCountRange(recipes, lo, mid) + SumCountRange(recipes, mid + 1, hi)

SumIngredientCount(recipes) == SumCountRange(recipes, 1, Len(recipes))

NoFailedBatch(c) == \A j \in DOMAIN log : ~(log[j].ev = "failed" /\ log[j].coll = c)

(* C9 as stated - Completeness: after a full ingest in which no batch failed,
   the count of the ingredients collection equals the sum of ingredient_count
   over all recipes, on the full builder and on the simple loader. *)
C9_CompleteEveryPath ==
    ((BuilderDone /\ NoFailedBatch("ingredients")) \/ LoaderDone)
        => Count(collections["ingredients"]) = SumIngredientCount(data.recipes)

(* C9 as amended - Completeness: after a full ingest in which no batch
   failed, the count of the ingredients collection equals the sum of
   ingredient_count over all recipes on the full builder; the simple loader
   stores only the first 1000 ingredient documents, so after it the count is
   the smaller of 1000 and that sum. *)
C9_Complete ==
    /\ (BuilderDone /\ NoFailedBatch("ingredients"))
          => Count(collections["ingredients"]) = SumIngredientCount(data.recipes)
    /\ LoaderDone
          => Count(collections["ingredients"]) =
                Min(LoaderIngredientLimit, SumIngredientCount(data.recipes))

C9_Witness ==
    /\ BuilderDone
    /\ NoFailedBatch("ingredients")
    /\ Len(data.recipes) = 2
    /\ SumIngredientCount(data.recipes) = 7
    /\ Count(collections["ingredients"]) = 7

----------------------------------------------------------------------------
(* Retrieval: create_search_functions and SmartRAGEnhancer.enhance_search_results *)

MaxResults == 2

\* Distances and confidences are counted in hundredths: 100 stands for 1.0.
DistanceScale == 100

\* metadata given to get_or_create_collection in create_collections.
CollectionMetadata(name) ==
    CASE name = "recipes" ->
           [description |-> "North Indian recipes with complete ingredient lists",
            search_type |-> "recipe_to_ingredients"]
      [] name = "ingredients" ->
           [description |-> "Individual ingredient usage patterns in recipes",
            search_type |-> "ingredient_to_recipes"]
      [] OTHER ->
           [description |-> "General food and cuisine information",
            search_type |-> "general_food_queries"]

\* The distance function of a collection: the one its metadata configures,
\* squared L2 when it configures none.
CollectionSpace(name) ==
    IF "hnsw_space" \in DOMAIN CollectionMetadata(name)
       THEN CollectionMetadata(name).hnsw_space
       ELSE "l2"

\* Largest distance between two unit-length embedding vectors.
MaxDistance(space) ==
    IF space = "l2" THEN 4 * DistanceScale ELSE 2 * DistanceScale

DistanceSamples(name) ==
    {d \in {0, 10, 100, 150, 400} : d <= MaxDistance(CollectionSpace(name))}

NonDecreasing(ds) == \A a, b \in DOMAIN ds : a < b => ds[a] <= ds[b]

Injective(f) == \A a, b \in DOMAIN f : f[a] = f[b] => a = b

\* collection.query(query_texts=[query], n_results, include=[...]): the
\* min(n_results, count) nearest entries, nearest first, as parallel arrays.
QueryResults(name, n_results) ==
    LET store == collections[name]
        m == Min(n_results, Len(store))
    IN {[documents |-> [j \in 1..m |-> store[pick[j]].document],
         metadatas |-> [j \in 1..m |-> store[pick[j]].metadata],
         distances |-> ds] :
           pick \in {f \in [1..m -> DOMAIN store] : Injective(f)},
           ds \in {g \in [1..m -> DistanceSamples(name)] : NonDecreasing(g)}}

\* `1 - distance`
Confidence(distance) == DistanceScale - distance

HasFields(metadata, fields) == fields \subseteq DOMAIN metadata

\* metadata.get(field, '')
Get(metadata, field) == IF field \in DOMAIN metadata THEN metadata[field] ELSE ""

\* text[:n] + "..."
Excerpt(text, n) == [first |-> n, of |-> text]

RecipeResult(r, j) ==
    [recipe_name |-> r.metadatas[j].recipe_name,
     ingredients |-> Get(r.metadatas[j], "all_ingredients"),
     cuisine |-> r.metadatas[j].cuisine,
     course |-> r.metadatas[j].course,
     confidence |-> Confidence(r.distances[j]),
     source |-> r.metadatas[j].source]

IngredientResult(r, j) ==
    [ingredient |-> r.metadatas[j].ingredient_name,
     recipe_name |-> r.metadatas[j].recipe_name,
     cuisine |-> r.metadatas[j].cuisine,
     course |-> r.metadatas[j].course,
     confidence |-> Confidence(r.distances[j]),
     usage_context |-> Excerpt(r.documents[j], 100)]

GeneralResult(r, j) ==
    [recipe_name |-> r.metadatas[j].recipe_name,
     cuisine |-> r.metadatas[j].cuisine,
     course |-> r.metadatas[j].course,
     confidence |-> Confidence(r.distances[j]),
     description |-> Excerpt(r.documents[j], 150)]

\* The metadata fields a search function reads with [...]: a missing one
\* raises KeyError inside the try block.
RequiredFields(mode) ==
    CASE mode = "recipes" -> {"recipe_name", "cuisine", "course", "source"}
      [] mode = "ingredients" -> {"ingredient_name", "recipe_name", "cuisine", "course"}
      [] OTHER -> {"recipe_name", "cuisine", "course"}

FormatHit(mode, r, j) ==
    CASE mode = "recipes" -> RecipeResult(r, j)
      [] mode = "ingredients" -> IngredientResult(r, j)
      [] OTHER -> GeneralResult(r, j)

\* Variant: the hits are formatted last to first.
FormattedReversed(mode, r) ==
    [j \in DOMAIN r.documents |-> FormatHit(mode, r, Len(r.documents) + 1 - j)]

\* `for i in range(len(results['documents'][0]))`: one formatted result per
\* hit, appended in the order of the hits.
Formatted(mode, r) ==
    [j \in DOMAIN r.documents |-> FormatHit(mode, r, j)]

\* `except Exception as e: print(f"Search error: {e}"); return []`
SearchErrorReturn == <<>>

\* The retrieval functions keep no state between calls, so a behaviour
\* makes one call, from the state the collections were left in.
NoCallYet == search = NoSearch

\* What a search function returns: the formatted hits of the query, or []
\* after "Search error" when the query or a metadata lookup raised.
SearchOutcomes(mode) ==
    LET failed(n, r) ==
            SearchRecord(mode, n, 0, TRUE, "Search error", r, SearchErrorReturn)
    IN UNION {
         {failed(n, EmptyHits)} \cup
         {IF \A j \in DOMAIN r.metadatas :
                HasFields(r.metadatas[j], RequiredFields(mode))
             THEN SearchRecord(mode, n, 0, FALSE, "", r, Formatted(mode, r))
             ELSE failed(n, r) : r \in QueryResults(mode, n)} :
         n \in 1..MaxResults}

search_recipe_ingredients ==
    /\ path = "search"
    /\ NoCallYet
    /\ search' \in SearchOutcomes("recipes")
    /\ UNCHANGED <<collections, documents, collection_name, batch_size, i, retry,
                   embeddings_list, successful_batches, pc, stored_reported,
                   warned, log, run, count1, faults, path, data, stage,
                   build, built,
                   session_state, evaluated>>

search_ingredient_usage ==
    /\ path = "search"
    /\ NoCallYet
    /\ search' \in SearchOutcomes("ingredients")
    /\ UNCHANGED <<collections, documents, collection_name, batch_size, i, retry,
                   embeddings_list, successful_batches, pc, stored_reported,
                   warned, log, run, count1, faults, path, data, stage,
                   build, built,
                   session_state, evaluated>>

search_general_food ==
    /\ path = "search"
    /\ NoCallYet
    /\ search' \in SearchOutcomes("general")
    /\ UNCHANGED <<collections, documents, collection_name, batch_size, i, retry,
                   embeddings_list, successful_batches, pc, stored_reported,
                   warned, log, run, count1, faults, path, data, stage,
                   build, built,
                   session_state, evaluated>>

\* Variant: the rank is the 0-based position.
EnhancedZeroBased(r, j) ==
    [content |-> r.documents[j],
     metadata |-> r.metadatas[j],
     confidence |-> Confidence(r.distances[j]),
     rank |-> j - 1]

\* The entry enhance_search_results builds for the hit at position j
\* (1-based): `'rank': i + 1` for the 0-based i of enumerate.
Enhanced(r, j) ==
    [content |-> r.documents[j],
     metadata |-> r.metadatas[j],
     confidence |-> Confidence(r.distances[j]),
     rank |-> j]

\* `for i, (doc, metadata, distance) in enumerate(zip(...))`
EnhancedResults(r) == [j \in DOMAIN r.documents |-> Enhanced(r, j)]

\* enhance_search_results on the raw result of a query of one collection.
enhance_search_results ==
    /\ path = "search"
    /\ NoCallYet
    /\ \E name \in CollectionNames, n \in 1..MaxResults :
          \E r \in QueryResults(name, n) :
             search' = SearchRecord("enhanced", n, 0, FALSE, "", r,
                                    EnhancedResults(r))
    /\ UNCHANGED <<collections, documents, collection_name, batch_size, i, retry,
                   embeddings_list, successful_batches, pc, stored_reported,
                   warned, log, run, count1, faults, path, data, stage,
                   build, built,
                   session_state, evaluated>>

\* min_confidence arguments, in hundredths.
MinConfidenceSamples == {0, 30, 90, 95}

\* Variant: a result whose confidence equals the threshold is dropped.
PassesStrictly(confidence, min_confidence) == confidence > min_confidence

\* `if confidence >= min_confidence` / `r['confidence'] >= min_confidence`
Passes(confidence, min_confidence) == confidence >= min_confidence

\* The tuple (doc, metadata, confidence, i) display_search_results keeps for
\* the hit at 0-based position i.
DisplayEntry(r, j) ==
    [content |-> r.documents[j], metadata |-> r.metadatas[j],
     confidence |-> Confidence(r.distances[j]), orig_idx |-> j - 1]

\* filtered_results of display_search_results
DisplayFiltered(r, mc) ==
    SelectSeq([j \in DOMAIN r.documents |-> DisplayEntry(r, j)],
              LAMBDA e : Passes(e.confidence, mc))

\* filtered_results of enhanced_display_search_results
EnhancedFiltered(r, mc) ==
    SelectSeq(EnhancedResults(r), LAMBDA e : Passes(e.confidence, mc))

\* display_search_results: query with n_results = num_results, warn when the
\* store returned no hit, filter by confidence, warn when nothing passed,
\* otherwise show the filtered results; any exception ends in st.error.
display_search_results ==
    /\ path = "search"
    /\ NoCallYet
    /\ \E name \in CollectionNames, n \in 1..MaxResults, mc \in MinConfidenceSamples :
          \/ search' = SearchRecord("display", n, mc, TRUE, "error", EmptyHits, <<>>)
          \/ \E r \in QueryResults(name, n) :
                search' =
                   IF r.documents = <<>>
                      THEN SearchRecord("display", n, mc, FALSE, "warning", r, <<>>)
                      ELSE IF DisplayFiltered(r, mc) = <<>>
                              THEN SearchRecord("display", n, mc, FALSE, "warning", r, <<>>)
                              ELSE SearchRecord("display", n, mc, FALSE, "results", r,
                                                DisplayFiltered(r, mc))
    /\ UNCHANGED <<collections, documents, collection_name, batch_size, i, retry,
                   embeddings_list, successful_batches, pc, stored_reported,
                   warned, log, run, count1, faults, path, data, stage,
                   build, built,
                   session_state, evaluated>>

\* SmartRAGEnhancer.__init__: the metric lists are created when the session
\* has none yet, and kept otherwise.
EnhancerInit(session) ==
    IF "rag_metrics" \in DOMAIN session
       THEN session
       ELSE [k \in {"rag_metrics"} |-> NoMetrics]

\* The results argument of evaluate_search_results: None, or a dict.
NoneValue == [none |-> TRUE, dict |-> NoSession]
ResultsDict(d) == [none |-> FALSE, dict |-> d]

\* Variant: a result without hits also takes the early return.
NotResultsOrNoHits(results) ==
    \/ results.none
    \/ DOMAIN results.dict = {}
    \/ results.dict.documents = <<>>

\* `if not results`: None and the empty dict are falsy, a dict with keys is
\* truthy whatever its lists hold.
NotResults(results) == results.none \/ DOMAIN results.dict = {}

RECURSIVE SumSeq(_)
SumSeq(seq) == IF seq = <<>> THEN 0 ELSE seq[1] + SumSeq(Tail(seq))

\* `np.mean(confidences) if confidences else 0`, as the pair (sum, count).
AvgConfidence(r) ==
    LET confidences == [j \in DOMAIN r.distances |-> Confidence(r.distances[j])]
    IN IF confidences = <<>> THEN <<0, 1>>
                             ELSE <<SumSeq(confidences), Len(confidences)>>

\* The session after evaluate_search_results(query, results, response_time):
\* the early return leaves it alone, otherwise the three appends are made.
Evaluate(session, query, results, response_time) ==
    IF NotResults(results)
       THEN session
       ELSE [session EXCEPT !["rag_metrics"] =
               [queries |-> Append(@.queries, query),
                response_times |-> Append(@.response_times, response_time),
                confidences |-> Append(@.confidences, AvgConfidence(results.dict))]]

EvaluateCall(query, results, response_time) ==
    [query |-> query, results |-> results, response_time |-> response_time]

\* Query texts and measured response times (milliseconds).
QuerySamples == {"dal makhani", "paneer"}
ResponseTimeSamples == {800, 1500}

\* enhanced_display_search_results: query with n_results = num_results,
\* evaluate (the metrics are appended), enhance, filter by confidence, warn
\* when nothing passed; no handler, an exception of the query leaves the
\* function.
enhanced_display_search_results ==
    /\ path = "search"
    /\ NoCallYet
    /\ \E name \in CollectionNames, n \in 1..MaxResults, mc \in MinConfidenceSamples :
          \/ /\ search' = SearchRecord("enhanced_display", n, mc, TRUE, "raised",
                                       EmptyHits, <<>>)
             /\ UNCHANGED <<session_state, evaluated>>
          \/ \E r \in QueryResults(name, n), query \in QuerySamples,
                response_time \in ResponseTimeSamples :
                /\ session_state' =
                      Evaluate(session_state, query, ResultsDict(r), response_time)
                /\ evaluated' =
                      Append(evaluated, EvaluateCall(query, ResultsDict(r), response_time))
                /\ search' =
                      IF EnhancedFiltered(r, mc) = <<>>
                         THEN SearchRecord("enhanced_display", n, mc, FALSE, "warning", r, <<>>)
                         ELSE SearchRecord("enhanced_display", n, mc, FALSE, "results", r,
                                           EnhancedFiltered(r, mc))
    /\ UNCHANGED <<collections, documents, collection_name, batch_size, i, retry,
                   embeddings_list, successful_batches, pc, stored_reported,
                   warned, log, run, count1, faults, path, data, stage,
                   build, built>>

\* The collections after a fault-free load of a data set.
Loaded(d) ==
    [c \in CollectionNames |->
        CASE c = "recipes" ->
               AddEntries(<<>>, LoaderEntries(OfType(d.rag_documents, "recipe")))
          [] c = "ingredients" ->
               AddEntries(<<>>, LoaderEntries(OfType(d.rag_documents, "ingredient_usage")))
          [] OTHER ->
               AddEntries(<<>>, LoaderEntries(CreateGeneralDocuments(d.recipes)))]

InitSearch ==
    /\ \/ collections = [c \in CollectionNames |-> <<>>]
       \/ collections = Loaded(CleanDataset(<<Recipe(1, IngredientsOf(MinIngredients))>>))
    /\ documents = <<>>
    /\ collection_name = "recipes"
    /\ batch_size = DefaultBatchSize
    /\ i = 0
    /\ retry = 0
    /\ embeddings_list = <<>>
    /\ successful_batches = 0
    /\ pc = "idle"
    /\ stored_reported = 0
    /\ warned = FALSE
    /\ log = <<>>
    /\ run = 0
    /\ count1 = 0
    /\ faults = 0
    /\ path = "search"
    /\ NoCallYet
    /\ data = NoData
    /\ stage = "start"
    /\ search = NoSearch
    /\ build = NoBuild
    /\ built = <<>>
    /\ session_state = EnhancerInit(NoSession)
    /\ evaluated = <<>>

NextSearch ==
    \/ search_recipe_ingredients
    \/ search_ingredient_usage
    \/ search_general_food
    \/ enhance_search_results
    \/ display_search_results
    \/ enhanced_display_search_results

SpecSearch == InitSearch /\ [][NextSearch]_vars

SearchModes == {"recipes", "ingredients", "general"}

(* C10 - Confidence bounds: every result returned by one of the three search
   functions or by the result enhancer has 0 <= confidence <= 1. *)
C10_ConfidenceBounds ==
    \A j \in DOMAIN search.results :
        /\ 0 <= search.results[j].confidence
        /\ search.results[j].confidence <= DistanceScale

(* C11 - Ranking order: the list a search function returns has one entry per
   hit the store returned and never more than n_results entries, entry j is
   built from hit j (the store's order is kept, also between equal
   confidences), and the confidences are in non-increasing order. *)
C11_RankingOrder ==
    (search.mode \in SearchModes /\ ~search.error) =>
        /\ Len(search.results) = Len(search.raw.documents)
        /\ Len(search.results) <= search.n_results
        /\ \A j \in DOMAIN search.results :
              /\ search.results[j].recipe_name = search.raw.metadatas[j].recipe_name
              /\ search.results[j].confidence = DistanceScale - search.raw.distances[j]
        /\ \A j \in 1..(Len(search.results) - 1) :
              search.results[j].confidence >= search.results[j + 1].confidence

C11_Witness ==
    /\ search.mode = "ingredients" /\ ~search.error
    /\ Len(search.results) = 2
    /\ search.results[1].confidence > search.results[2].confidence
    /\ search.results[1].ingredient # search.results[2].ingredient

(* C12 - Fault versus empty: a search call in which the query or a metadata
   lookup raised returns a value different from the value returned for a
   query that succeeded with zero hits. *)
C12_FaultDistinguished ==
    (search.mode \in SearchModes /\ search.error) =>
        search.results # Formatted(search.mode, EmptyHits)

DisplayModes == {"display", "enhanced_display"}

\* 1-based position, among the hits the store returned, of a filtered entry.
HitOf(e) == IF search.mode = "display" THEN e.orig_idx + 1 ELSE e.rank

(* C13 - min_confidence filtering: the filtered list of a display call holds,
   in retrieved order, exactly the retrieved hits whose confidence is at
   least min_confidence; the store was asked for n_results candidates
   whatever the threshold; and when nothing passes the call ends with the
   'no results' warning and an empty list, not with an error. *)
C13_MinConfidenceFilter ==
    (search.mode \in DisplayModes /\ ~search.error) =>
        LET hits == search.raw
            passing == {j \in DOMAIN hits.distances :
                           DistanceScale - hits.distances[j] >= search.min_confidence}
        IN /\ Len(hits.documents) <= search.n_results
           /\ Len(hits.documents) = search.n_results
                 \/ \E c \in CollectionNames : Len(hits.documents) = Count(collections[c])
           /\ {HitOf(search.results[a]) : a \in DOMAIN search.results} = passing
           /\ \A a, b \in DOMAIN search.results :
                 a < b => HitOf(search.results[a]) < HitOf(search.results[b])
           /\ \A a \in DOMAIN search.results :
                 /\ search.results[a].content = hits.documents[HitOf(search.results[a])]
                 /\ search.results[a].confidence =
                       DistanceScale - hits.distances[HitOf(search.results[a])]
           /\ (passing = {}) <=> (search.message = "warning" /\ search.results = <<>>)
           /\ (passing # {}) <=> search.message = "results"

C13_Witness ==
    /\ search.mode = "display" /\ ~search.error
    /\ search.min_confidence = 90
    /\ Len(search.raw.documents) = 2
    /\ search.raw.distances = <<10, 100>>
    /\ Len(search.results) = 1
    /\ search.results[1].confidence = 90

C13_WitnessNothingPasses ==
    /\ search.mode = "enhanced_display" /\ ~search.error
    /\ search.min_confidence = 95
    /\ search.raw.distances = <<10>>
    /\ search.results = <<>>
    /\ search.message = "warning"

----------------------------------------------------------------------------
(* Store set-up and the complete build: initialize_vector_database,
   create_collections, build_complete_system, quick_db_rebuild.py *)

\* Variant: a clean start removes the three named collections only.
RemoveStoreNamedOnly(store, clean_start) ==
    IF clean_start
       THEN [c \in DOMAIN store \ CollectionNames |-> store[c]]
       ELSE store

\* `if clean_start and os.path.exists(self.db_path): shutil.rmtree(self.db_path)`
RemoveStore(store, clean_start) == IF clean_start THEN EmptyStore ELSE store

\* get_or_create_collection for each of the three names: an existing
\* collection is returned as it is, a missing one is created empty.
GetOrCreateCollections(store) ==
    [c \in DOMAIN store \cup CollectionNames |->
        IF c \in DOMAIN store THEN store[c] ELSE <<>>]

\* build_complete_system passes clean_start=True at its only call site.
BuildCleanStart == TRUE

\* An exception leaving a step: inside build_complete_system the handler
\* prints "BUILD FAILED" and returns False; a direct caller receives it.
Raise(step) ==
    IF path = "build"
       THEN [build EXCEPT !.step = "returned", !.error = step, !.result = "False"]
       ELSE [build EXCEPT !.step = "raised", !.error = step, !.raised = step]

BuildFrame ==
    UNCHANGED <<documents, collection_name, batch_size, i, retry, embeddings_list,
                successful_batches, pc, stored_reported, warned, log, run,
                count1, path, data, stage, search, built,
                   session_state, evaluated>>

\* Step 1: the JSON file is read, or the open / parse / metadata lookup raises.
load_clean_data ==
    /\ path = "build"
    /\ build.step = "start"
    /\ \/ build' = [build EXCEPT !.step = "loaded"] /\ UNCHANGED faults
       \/ /\ faults < FaultLimit
          /\ faults' = faults + 1
          /\ build' = Raise("load_clean_data")
    /\ UNCHANGED collections
    /\ BuildFrame

\* Step 2: the sentence-transformer model is loaded and tested, or raises.
initialize_embedding_model ==
    /\ path = "build"
    /\ build.step = "loaded"
    /\ \/ build' = [build EXCEPT !.step = "model"] /\ UNCHANGED faults
       \/ /\ faults < FaultLimit
          /\ faults' = faults + 1
          /\ build' = Raise("initialize_embedding_model")
    /\ UNCHANGED collections
    /\ BuildFrame

\* initialize_vector_database(clean_start): the build passes True, a direct
\* caller chooses (default False).  The client constructor may raise after
\* the directory was removed.
initialize_vector_database ==
    /\ \/ path = "build" /\ build.step = "model"
       \/ path = "setup" /\ build.step = "start"
    /\ \E clean_start \in (IF path = "build" THEN {BuildCleanStart} ELSE BOOLEAN) :
          /\ collections' = RemoveStore(collections, clean_start)
          /\ \/ /\ build' = [build EXCEPT !.step = "store",
                                            !.clean_start = clean_start,
                                            !.requested = (path = "setup" /\ clean_start)]
                /\ UNCHANGED faults
             \/ /\ faults < FaultLimit
                /\ faults' = faults + 1
                /\ build' = [Raise("initialize_vector_database") EXCEPT
                                !.clean_start = clean_start,
                                !.requested = (path = "setup" /\ clean_start)]
    /\ BuildFrame

\* create_collections: the three get_or_create_collection calls, or one of
\* them raises.
create_collections ==
    /\ path \in {"build", "setup"}
    /\ build.step = "store"
    /\ \/ /\ collections' = GetOrCreateCollections(collections)
          /\ build' = [build EXCEPT !.step = "collections"]
          /\ UNCHANGED faults
       \/ /\ faults < FaultLimit
          /\ faults' = faults + 1
          /\ build' = Raise("create_collections")
          /\ UNCHANGED collections
    /\ BuildFrame

\* Steps 5 and 6: process_and_store_documents returned, the search functions
\* are created.
create_search_functions ==
    /\ path = "build"
    /\ build.step = "collections"
    /\ stage = "general" /\ pc = "returned"
    /\ build' = [build EXCEPT !.step = "functions"]
    /\ UNCHANGED <<collections, faults>>
    /\ BuildFrame

\* Step 7 and the end of the try block: the counts are read and the three
\* test searches run (a search never raises); then True is returned.  A
\* count() that raises is re-raised into the handler of the build.
verify_database ==
    /\ path = "build"
    /\ build.step = "functions"
    /\ \/ /\ build' = [build EXCEPT !.step = "returned", !.result = "True"]
          /\ UNCHANGED faults
       \/ /\ faults < FaultLimit
          /\ faults' = faults + 1
          /\ build' = Raise("verify_database")
    /\ UNCHANGED collections
    /\ BuildFrame

\* quick_db_rebuild.rebuild_database: remove the directory, open a client,
\* get or create the three collections, return True.
rebuild_database ==
    /\ path = "rebuild"
    /\ build.step = "start"
    /\ collections' = GetOrCreateCollections(RemoveStore(collections, TRUE))
    /\ build' = [build EXCEPT !.step = "collections", !.clean_start = TRUE,
                              !.requested = TRUE, !.result = "True"]
    /\ UNCHANGED faults
    /\ BuildFrame

\* Entries left by an earlier build of one recipe.
EarlierBuild == Loaded(CleanDataset(<<Recipe(1, IngredientsOf(MinIngredients))>>))

\* What the store location may hold before the set-up: nothing, the three
\* collections of an earlier build, or those and a collection of another name.
PriorStores ==
    {EmptyStore,
     EarlierBuild,
     [c \in CollectionNames \cup {"legacy"} |->
         IF c = "legacy" THEN EarlierBuild["recipes"] ELSE EarlierBuild[c]]}

InitBuild ==
    /\ collections \in PriorStores
    /\ documents = <<>>
    /\ collection_name = "recipes"
    /\ batch_size = DefaultBatchSize
    /\ i = 0
    /\ retry = 0
    /\ embeddings_list = <<>>
    /\ successful_batches = 0
    /\ pc = "idle"
    /\ stored_reported = 0
    /\ warned = FALSE
    /\ log = <<>>
    /\ run = 0
    /\ count1 = 0
    /\ faults = 0
    /\ path \in {"build", "setup", "rebuild"}
    /\ data \in SmallDatasets
    /\ stage = "start"
    /\ search = NoSearch
    /\ build = [NoBuild EXCEPT !.step = "start", !.before = collections]
    /\ built = <<>>
    /\ session_state = NoSession
    /\ evaluated = <<>>

NextBuild ==
    \/ load_clean_data
    \/ initialize_embedding_model
    \/ initialize_vector_database
    \/ create_collections
    \/ ProcessAndStoreDocuments
    \/ EmbedBatch
    \/ EmbedFails
    \/ AddSucceeds
    \/ AddRaises
    \/ Finish
    \/ create_search_functions
    \/ verify_database
    \/ rebuild_database

SpecBuild == InitBuild /\ [][NextBuild]_vars

\* Every entry the store location held before is still held.
BeforeKept ==
    \A c \in DOMAIN build.before :
        /\ c \in DOMAIN collections
        /\ \A j \in DOMAIN build.before[c] :
              \E k \in DOMAIN collections[c] : collections[c][k] = build.before[c][j]

(* C14 - Clean start postcondition: once the store was initialized with
   clean_start = true and the collections were created, and before anything
   is ingested, the store location holds exactly the three named collections
   and each of them is empty, whatever it held before. *)
C14_CleanStart ==
    (build.clean_start /\ build.step = "collections" /\ stage = "start") =>
        /\ DOMAIN collections = CollectionNames
        /\ \A c \in CollectionNames : Count(collections[c]) = 0

C14_Witness ==
    /\ path = "setup"
    /\ build.clean_start /\ build.step = "collections"
    /\ "legacy" \in DOMAIN build.before
    /\ Count(build.before["recipes"]) > 0
    /\ DOMAIN collections = CollectionNames
    /\ \A c \in CollectionNames : Count(collections[c]) = 0

(* C15 - Additive by default: unless the caller explicitly requested a clean
   start, a set-up or build never removes a collection or a document that
   the store location held before it. *)
C15_AdditiveByDefault ==
    (path \in {"build", "setup"} /\ ~build.requested) => BeforeKept

FatalSteps ==
    {"load_clean_data", "initialize_embedding_model",
     "initialize_vector_database", "create_collections"}

BuildReturned == path = "build" /\ build.step = "returned"

AnyBatch(ev) == \E j \in DOMAIN log : log[j].ev = ev

(* C16 - Final build status reflects the ingested fraction: a complete build
   in which batches were attempted and every batch of every collection
   failed returns 'fail'. *)
C16_StatusReflectsIngestion ==
    (BuildReturned /\ AnyBatch("batch") /\ ~AnyBatch("add_ok"))
        => build.result = "False"

(* C17 - Fatal errors abort and propagate: when data loading, model loading,
   store initialization or collection creation fails in a build, no batch is
   ingested afterwards and the caller of the build receives that error. *)
C17_FatalPropagates ==
    (path = "build" /\ build.error \in FatalSteps) =>
        /\ ~AnyBatch("batch")
        /\ build.raised = build.error

----------------------------------------------------------------------------
(* The document builders as functions of the recipe sequence:
   generate_rag_documents and _create_general_documents *)

WideIngredientCount == 100

\* Recipe k of an input: 3 ingredients, one more with each position.
StandardRecipe(k) ==
    Recipe(k, IngredientsOf(Min(MaxIngredients, MinIngredients + k - 1)))

WellFormedInputs ==
    {[k \in 1..n |-> StandardRecipe(k)] : n \in 1..MaxRecipes}
    \cup {<<Recipe(1, IngredientsOf(WideIngredientCount))>>}

\* A recipe dict without the 'name' key.
WithoutName(r) == [f \in DOMAIN r \ {"name"} |-> r[f]]

\* A recipe dict with an empty ingredient list.
WithoutIngredients(r) == [r EXCEPT !.ingredients = <<>>, !.ingredient_count = 0]

MalformedInputs ==
    UNION {{[rs EXCEPT ![k] = WithoutName(rs[k])] : k \in DOMAIN rs}
           \cup {[rs EXCEPT ![k] = WithoutIngredients(rs[k])] : k \in DOMAIN rs} :
              rs \in {[k \in 1..n |-> StandardRecipe(k)] : n \in 1..MaxRecipes}}

RecipeInputs == WellFormedInputs \cup MalformedInputs

\* The keys generate_rag_documents reads with recipe[...].
GenerateFields ==
    {"id", "name", "cuisine", "course", "ingredients", "ingredient_count",
     "region", "source"}

\* The keys _create_general_documents reads with recipe[...].
GeneralFields ==
    {"id", "name", "cuisine", "course", "ingredients", "ingredient_count",
     "region", "source"}

\* recipe[key] on a missing key raises KeyError; neither builder catches it.
BuilderRaises(fields, recipes) ==
    \E k \in DOMAIN recipes : ~HasFields(recipes[k], fields)

BuilderCall(fn, recipes) ==
    IF fn = "generate_rag_documents"
       THEN IF BuilderRaises(GenerateFields, recipes)
               THEN [fn |-> fn, input |-> recipes, raised |-> TRUE, output |-> <<>>]
               ELSE [fn |-> fn, input |-> recipes, raised |-> FALSE,
                     output |-> GenerateRagDocuments(recipes)]
       ELSE IF BuilderRaises(GeneralFields, recipes)
               THEN [fn |-> fn, input |-> recipes, raised |-> TRUE, output |-> <<>>]
               ELSE [fn |-> fn, input |-> recipes, raised |-> FALSE,
                     output |-> CreateGeneralDocuments(recipes)]

DocsFrame ==
    UNCHANGED <<collections, documents, collection_name, batch_size, i, retry,
                embeddings_list, successful_batches, pc, stored_reported,
                warned, log, run, count1, faults, path, data, stage, search,
                build,
                   session_state, evaluated>>

\* A call of CleanIndianFoodProcessor.generate_rag_documents(all_recipes).
generate_rag_documents ==
    /\ path = "documents"
    /\ Len(built) <= 2
    /\ \E recipes \in RecipeInputs :
          built' = Append(built, BuilderCall("generate_rag_documents", recipes))
    /\ DocsFrame

\* A call of NorthIndianRAGVectorDB._create_general_documents(recipes).
create_general_documents ==
    /\ path = "documents"
    /\ Len(built) <= 2
    /\ \E recipes \in RecipeInputs :
          built' = Append(built, BuilderCall("_create_general_documents", recipes))
    /\ DocsFrame

InitDocs ==
    /\ built = <<>>
    /\ session_state = NoSession
    /\ evaluated = <<>>
    /\ collections = [c \in CollectionNames |-> <<>>]
    /\ documents = <<>>
    /\ collection_name = "recipes"
    /\ batch_size = DefaultBatchSize
    /\ i = 0
    /\ retry = 0
    /\ embeddings_list = <<>>
    /\ successful_batches = 0
    /\ pc = "idle"
    /\ stored_reported = 0
    /\ warned = FALSE
    /\ log = <<>>
    /\ run = 0
    /\ count1 = 0
    /\ faults = 0
    /\ path = "documents"
    /\ data = NoData
    /\ stage = "start"
    /\ search = NoSearch
    /\ build = NoBuild

NextDocs ==
    \/ generate_rag_documents
    \/ create_general_documents

SpecDocs == InitDocs /\ [][NextDocs]_vars

\* A recipe without a name or with an empty ingredient list.
Malformed(r) == "name" \notin DOMAIN r \/ r.ingredients = <<>>

\* The positions of the output documents built from recipe r.
DocsOf(output, r) ==
    {j \in DOMAIN output :
        \/ output[j].id = r.id
        \/ output[j].id = <<"general">> \o r.id
        \/ /\ Len(output[j].id) > Len(r.id)
           /\ SubSeq(output[j].id, 1, Len(r.id)) = r.id}

\* The number of documents a call owes a well-formed recipe.
FullSet(fn, r) ==
    IF fn = "generate_rag_documents" THEN 1 + Len(r.ingredients) ELSE 1

(* C18 - Malformed recipes are skipped, not fatal: a builder call on a
   sequence that contains a recipe without a name or with an empty
   ingredient list does not raise, yields no document for that recipe and
   yields the full set of documents for every other recipe. *)
C18_MalformedSkipped ==
    \A c \in DOMAIN built :
        /\ ~built[c].raised
        /\ \A k \in DOMAIN built[c].input :
              LET r == built[c].input[k]
              IN Cardinality(DocsOf(built[c].output, r)) =
                    IF Malformed(r) THEN 0 ELSE FullSet(built[c].fn, r)

(* C19 - Determinism of document building: two calls of one builder on the
   same recipe sequence, whatever was built before or between them, yield
   the same documents: the same ids and for every id the same type, content
   and metadata. *)
C19_Deterministic ==
    \A a, b \in DOMAIN built :
        (built[a].fn = built[b].fn /\ built[a].input = built[b].input) =>
            /\ built[a].raised = built[b].raised
            /\ {built[a].output[j].id : j \in DOMAIN built[a].output}
                  = {built[b].output[j].id : j \in DOMAIN built[b].output}
            /\ \A ja \in DOMAIN built[a].output, jb \in DOMAIN built[b].output :
                  built[a].output[ja].id = built[b].output[jb].id =>
                     built[a].output[ja] = built[b].output[jb]

C19_Witness ==
    /\ Len(built) = 3
    /\ built[1].input # built[2].input
    /\ built[2].fn = "generate_rag_documents" /\ built[3].fn = built[2].fn
    /\ built[2].input = built[3].input
    /\ Len(built[2].input) = 2
    /\ ~built[3].raised
    /\ Len(built[3].output) = 9
    /\ built[2].output = built[3].output

\* The value of a sequence of decimal digits.
RECURSIVE DigitsValue(_)
DigitsValue(ds) ==
    IF ds = <<>> THEN 0
    ELSE 10 * DigitsValue(SubSeq(ds, 1, Len(ds) - 1)) + ds[Len(ds)]

\* id is r.id, then "_ing_", then p written in decimal with at least two
\* digits (exactly two up to 99).
IsIngredientId(id, r, p) ==
    /\ Len(id) >= Len(r.id) + 3
    /\ SubSeq(id, 1, Len(r.id)) = r.id
    /\ id[Len(r.id) + 1] = "_ing_"
    /\ LET ds == SubSeq(id, Len(r.id) + 2, Len(id))
       IN /\ \A d \in DOMAIN ds : ds[d] \in 0..9
          /\ DigitsValue(ds) = p
          /\ p <= 99 => Len(ds) = 2

IngredientPositions(output) ==
    {j \in DOMAIN output : output[j].type = "ingredient_usage"}

(* C20 - Ingredient document identity: for a recipe sequence with pairwise
   distinct recipe ids, the ingredient at 1-based position p of recipe r
   yields exactly one ingredient_usage document, with id
   '<r.id>_ing_<p in two digits>' and naming that ingredient; all ingredient
   document ids are pairwise distinct, also when an ingredient string is
   repeated inside a recipe; and the documents of one recipe appear in
   ingredient order. *)
C20_IngredientIdentity ==
    \A c \in DOMAIN built :
        (built[c].fn = "generate_rag_documents" /\ ~built[c].raised) =>
            LET recipes == built[c].input
                usage == OfType(built[c].output, "ingredient_usage")
                first(k) == SumCountRange(recipes, 1, k - 1)
            IN /\ Len(usage) = SumIngredientCount(recipes)
               /\ Cardinality({usage[j].id : j \in DOMAIN usage}) = Len(usage)
               /\ \A k \in DOMAIN recipes :
                     \A p \in DOMAIN recipes[k].ingredients :
                        /\ IsIngredientId(usage[first(k) + p].id, recipes[k], p)
                        /\ usage[first(k) + p].metadata.ingredient_name
                              = recipes[k].ingredients[p]

C20_Witness ==
    /\ Len(built) = 2
    /\ built[1].fn = "generate_rag_documents" /\ ~built[1].raised
    /\ Len(built[1].input) = 2
    /\ Len(built[1].input[2].ingredients) = 4
    /\ built[1].input[2].ingredients[1] = built[1].input[2].ingredients[4]
    /\ Cardinality(IngredientPositions(built[1].output)) = 7
    /\ built[2].fn = "generate_rag_documents" /\ ~built[2].raised
    /\ \E j \in DOMAIN built[2].output :
          built[2].output[j].id = <<"recipe", 1, "_ing_", 1, 0, 0>>

----------------------------------------------------------------------------
(* The general collection after an ingest *)

\* The general collection holds, in recipe order, one entry for each of the
\* first n recipes, with id 'general_<recipe id>' and a content that lists a
\* prefix of the recipe's ingredients of length min(k, count), 3 <= k <= 5.
GeneralView(n) ==
    LET general == collections["general"]
    IN /\ Count(general) = n
       /\ \A k \in 1..n :
             LET r == data.recipes[k]
             IN /\ general[k].id = <<"general">> \o r.id
                /\ \E m \in 3..5 :
                      general[k].document[6] =
                         SubSeq(r.ingredients, 1, Min(m, Len(r.ingredients)))

(* C21 as stated - General collection view: after a failure-free ingest, on
   the full builder and on the simple loader, the general collection holds
   exactly one document per recipe, with id 'general_<recipe id>' and a
   content listing a prefix of 3 to 5 of the recipe's ingredients, and its
   count equals the number of recipes. *)
C21_GeneralViewEveryPath ==
    ((BuilderDone /\ NoFailedBatch("general")) \/ LoaderDone)
        => GeneralView(Len(data.recipes))

(* C21 as amended - General collection view: after a failure-free ingest
   the full builder leaves one general document per recipe, with id
   'general_<recipe id>' and a content listing the first 5 ingredients at
   most, and the count equals the number of recipes; the simple loader does
   so for the first 100 recipes only (first 3 ingredients), so after it the
   count is the smaller of 100 and the number of recipes. *)
C21_GeneralView ==
    /\ (BuilderDone /\ NoFailedBatch("general")) => GeneralView(Len(data.recipes))
    /\ LoaderDone => GeneralView(Min(LoaderGeneralLimit, Len(data.recipes)))

C21_Witness ==
    /\ BuilderDone /\ NoFailedBatch("general")
    /\ Len(data.recipes) > LoaderGeneralLimit
    /\ Count(collections["general"]) = Len(data.recipes)
    /\ Len(data.recipes[1].ingredients) > GeneralPrefix
    /\ Len(collections["general"][1].document[6]) = GeneralPrefix

----------------------------------------------------------------------------
(* Pauses of the batch loop *)

\* The log position at which batch k was done with: its successful add or
\* its abandonment.
ProcessedAt(k) == CHOOSE j \in LogIdx({"add_ok", "failed"}, k) : TRUE

StartedAt(k) == CHOOSE j \in LogIdx({"batch"}, k) : TRUE

(* C22 - Inter-batch delay regardless of success: between the end of the
   processing of every batch and the start of the next batch the loop sleeps
   its fixed inter-batch delay, both when the batch succeeded and when it
   was marked failed. *)
C22_DelayAfterEveryBatch ==
    \A k \in BatchNums :
       (Processed(k) /\ Started(k + 1)) =>
          \E j \in LogIdx({"sleep"}, k) :
             /\ log[j].ms = BatchDelayMs
             /\ ProcessedAt(k) < j
             /\ j < StartedAt(k + 1)

\* The delay is there after every batch whose add succeeded.
C22_DelayAfterSucceededBatch ==
    \A k \in BatchNums :
       (Succeeded(k) /\ Started(k + 1)) =>
          \E j \in LogIdx({"sleep"}, k) :
             /\ log[j].ms = BatchDelayMs
             /\ ProcessedAt(k) < j
             /\ j < StartedAt(k + 1)

----------------------------------------------------------------------------
(* A call of _store_documents_batch that goes past the 25th batch *)

\* One call with LongRunDocs documents in batches of one document.
LongRunCall ==
    /\ path = "long"
    /\ pc = "idle"
    /\ EnterStore(FirstDocuments(LongRunDocs), "recipes", 1)
    /\ log' = <<>>
    /\ UNCHANGED <<collections, stored_reported, warned, run, count1, faults,
                   path, data, stage, search, build, built,
                   session_state, evaluated>>

InitLong ==
    /\ collections = [c \in CollectionNames |-> <<>>]
    /\ documents = <<>>
    /\ collection_name = "recipes"
    /\ batch_size = 1
    /\ i = 0
    /\ retry = 0
    /\ embeddings_list = <<>>
    /\ successful_batches = 0
    /\ pc = "idle"
    /\ stored_reported = 0
    /\ warned = FALSE
    /\ log = <<>>
    /\ run = 0
    /\ count1 = 0
    /\ faults = 0
    /\ path = "long"
    /\ data = NoData
    /\ stage = "start"
    /\ search = NoSearch
    /\ build = NoBuild
    /\ built = <<>>
    /\ session_state = NoSession
    /\ evaluated = <<>>

NextLong ==
    \/ LongRunCall
    \/ EmbedBatch
    \/ EmbedFails
    \/ AddSucceeds
    \/ AddRaises
    \/ Finish

SpecLong == InitLong /\ [][NextLong]_vars

\* A checkpoint is logged for batch k after the batch was done with and
\* before the next batch starts.
CheckpointAfter(k) ==
    \E j \in LogIdx({"checkpoint"}, k) :
       /\ ProcessedAt(k) < j
       /\ Started(k + 1) => j < StartedAt(k + 1)

(* C23 - Checkpoint cadence: for every batch number k that is a multiple of
   25 a checkpoint is performed after batch k has been processed and before
   batch k+1 starts, whether batch k succeeded or failed; no checkpoint is
   performed after a batch whose number is not a multiple of 25. *)
C23_CheckpointCadence ==
    \A k \in BatchNums :
       Processed(k) => (CheckpointAfter(k) <=> k % CheckpointInterval = 0)

\* The cadence holds for the batches whose add succeeded, and no failed batch
\* is followed by a checkpoint.
C23_CheckpointAfterSucceeded ==
    \A k \in BatchNums :
       /\ Succeeded(k) => (CheckpointAfter(k) <=> k % CheckpointInterval = 0)
       /\ Failed(k) => LogIdx({"checkpoint"}, k) = {}

----------------------------------------------------------------------------
(* Embeddings and stored state of one call *)

EncodeEvents == {j \in DOMAIN log : log[j].ev \in {"encode", "encode_fail"}}
BatchEvents == {j \in DOMAIN log : log[j].ev = "batch"}

(* C24 - One embedding call per batch: for every batch processed the
   embedding model is called exactly once, with all texts of the batch and
   before the first write attempt; the retries of the write reuse those
   embeddings and never call the model again, so the number of embedding
   calls equals the number of batches started. *)
C24_OneEmbeddingCall ==
    /\ \A k \in BatchNums :
          Started(k) =>
             /\ EncodeCalls(k) = 1
             /\ \A a \in LogIdx({"add_ok", "add_fail"}, k) :
                   \E e \in LogIdx({"encode"}, k) : e < a
    /\ Cardinality(EncodeEvents) = Cardinality(BatchEvents)
    /\ pc = "add" =>
          LET batch == ExpectedBatch(BatchNum(i))
          IN embeddings_list =
                [j \in 1..Len(batch) |-> <<"vec", batch[j].content>>]

C24_Witness ==
    /\ pc = "add"
    /\ retry = max_retries - 1
    /\ Len(embeddings_list) > 1
    /\ EncodeCalls(BatchNum(i)) = 1
    /\ FailedAttempts(BatchNum(i)) = max_retries - 1
    /\ BatchNum(i) > 1

\* The documents of the batches whose add succeeded.
SucceededDocs ==
    {documents[j] : j \in {n \in DOMAIN documents :
                               Succeeded(((n - 1) \div batch_size) + 1)}}

(* C25 - Stored state matches succeeded batches: starting from an empty
   collection, during and after the ingestion the set of stored ids is
   exactly the union of the ids of the batches whose write succeeded (a
   failed batch contributes no document), and each stored id carries the
   content, the metadata and the embedding of the document with that id. *)
C25_StoredMatchesSucceeded ==
    (path = "direct" /\ (run = 0 \/ (run = 1 /\ Returned))) =>
       LET store == collections[collection_name]
       IN /\ StoredIds(store) = {d.id : d \in SucceededDocs}
          /\ \A j \in DOMAIN store :
                \E d \in SucceededDocs :
                   /\ store[j].id = d.id
                   /\ store[j].document = d.content
                   /\ store[j].metadata = d.metadata
                   /\ store[j].embedding = <<"vec", d.content>>

C25_Witness ==
    /\ path = "direct" /\ run = 1 /\ Returned
    /\ batch_size > 1
    /\ \E k \in BatchNums : Failed(k)
    /\ \E k \in BatchNums : Succeeded(k) /\ Len(ExpectedBatch(k)) > 1
    /\ Count(collections[collection_name]) > 1
    /\ Count(collections[collection_name]) < total_docs

----------------------------------------------------------------------------
(* Which documents reach which collection *)

\* The (id, content) pairs of the input documents of the given types.
InputPairs(types) ==
    {<<data.rag_documents[j].id, data.rag_documents[j].content>> :
        j \in {n \in DOMAIN data.rag_documents :
                  data.rag_documents[n].type \in types}}

InputTypes == {data.rag_documents[j].type : j \in DOMAIN data.rag_documents}

\* The (id, content) pairs stored in a collection.
StoredPairs(c) ==
    {<<collections[c][j].id, collections[c][j].document>> :
        j \in DOMAIN collections[c]}

(* C26 - Routing by type: every input document of type 'recipe' is ingested
   only into the recipes collection and every document of type
   'ingredient_usage' only into the ingredients collection; an input
   document of any other type, 'general_info' included, is ingested into no
   collection; the general collection holds only documents regenerated from
   the recipe records; the collections are ingested in the order recipes,
   ingredients, general. *)
C26_Routing ==
    /\ StoredPairs("recipes") \subseteq InputPairs({"recipe"})
    /\ StoredPairs("ingredients") \subseteq InputPairs({"ingredient_usage"})
    /\ StoredPairs("general") \cap InputPairs(InputTypes) = {}
    /\ \A j \in DOMAIN collections["general"] :
          LET e == collections["general"][j]
          IN \E k \in DOMAIN data.recipes :
                /\ e.id = <<"general">> \o data.recipes[k].id
                /\ e.document[1] = "General"
                /\ e.document[3] = data.recipes[k].name
    /\ stage \in {"start", "recipes"} =>
          collections["ingredients"] = <<>> /\ collections["general"] = <<>>
    /\ stage = "ingredients" => collections["general"] = <<>>

C26_Witness ==
    /\ BuilderDone
    /\ {"general_info", "note"} \subseteq InputTypes
    /\ StoredPairs("recipes") = InputPairs({"recipe"})
    /\ StoredPairs("ingredients") = InputPairs({"ingredient_usage"})
    /\ Count(collections["recipes"]) = MaxRecipes
    /\ Count(collections["general"]) = MaxRecipes

\* The same end state is reached by the simple loader.
C26_WitnessLoader ==
    /\ LoaderDone
    /\ {"general_info", "note"} \subseteq InputTypes
    /\ StoredPairs("recipes") = InputPairs({"recipe"})
    /\ StoredPairs("ingredients") = InputPairs({"ingredient_usage"})
    /\ Count(collections["general"]) = MaxRecipes

----------------------------------------------------------------------------
(* Failures inside the simple loader *)

(* C27 - Simple loader has no failure containment: when the embedding call
   or the store write of some batch raises inside load_recipe_data, the load
   stops at that point: no later batch of that collection and no batch of a
   later collection is written, while every batch written before the
   failure remains stored. *)
C27_NoContainment ==
    /\ [](path = "loader" /\ faults > 0 => stage = "raised")
    /\ [][path = "loader" /\ faults' > faults => collections' = collections]_vars
    /\ [][~(path = "loader" /\ stage = "raised")]_vars

\* A partially populated store: the load ended inside the ingredient loop.
C27_Witness ==
    /\ path = "loader"
    /\ stage = "raised"
    /\ Count(collections["recipes"]) = Len(recipe_docs)
    /\ Count(collections["ingredients"]) > 0
    /\ Count(collections["ingredients"]) < LoaderIngredientStop
    /\ Count(collections["ingredients"]) = i
    /\ collections["general"] = <<>>

\* The load ended inside the recipe loop.
C27_WitnessRecipes ==
    /\ path = "loader"
    /\ stage = "raised"
    /\ Count(collections["recipes"]) > 0
    /\ Count(collections["recipes"]) < Len(recipe_docs)
    /\ collections["ingredients"] = <<>>
    /\ collections["general"] = <<>>

----------------------------------------------------------------------------
(* The metrics history of a session *)

\* The store the evaluated queries ran on: two recipes loaded.
MetricsStore ==
    Loaded(CleanDataset([k \in 1..2 |-> Recipe(k, IngredientsOf(MinIngredients))]))

\* Results handed to evaluate_search_results: None, an empty dict, the result
\* of a query without hits and the results of queries of the recipes
\* collection.
ResultsSamples ==
    {NoneValue, ResultsDict(NoSession), ResultsDict(EmptyHits)} \cup
    {ResultsDict(r) : r \in UNION {QueryResults("recipes", n) : n \in 1..MaxResults}}

\* SmartRAGEnhancer(): every rerun of the page constructs a new enhancer on
\* the same session.
SmartRAGEnhancer ==
    /\ path = "metrics"
    /\ session_state' = EnhancerInit(session_state)
    /\ UNCHANGED <<collections, documents, collection_name, batch_size, i, retry,
                   embeddings_list, successful_batches, pc, stored_reported,
                   warned, log, run, count1, faults, path, data, stage, search,
                   build, built, evaluated>>

\* A call of evaluate_search_results on an enhancer of the session.
evaluate_search_results ==
    /\ path = "metrics"
    /\ "rag_metrics" \in DOMAIN session_state
    /\ Len(evaluated) <= 1
    /\ \E query \in QuerySamples, results \in ResultsSamples,
          response_time \in ResponseTimeSamples :
          /\ session_state' = Evaluate(session_state, query, results, response_time)
          /\ evaluated' = Append(evaluated, EvaluateCall(query, results, response_time))
    /\ UNCHANGED <<collections, documents, collection_name, batch_size, i, retry,
                   embeddings_list, successful_batches, pc, stored_reported,
                   warned, log, run, count1, faults, path, data, stage, search,
                   build, built>>

InitMetrics ==
    /\ collections = MetricsStore
    /\ documents = <<>>
    /\ collection_name = "recipes"
    /\ batch_size = DefaultBatchSize
    /\ i = 0
    /\ retry = 0
    /\ embeddings_list = <<>>
    /\ successful_batches = 0
    /\ pc = "idle"
    /\ stored_reported = 0
    /\ warned = FALSE
    /\ log = <<>>
    /\ run = 0
    /\ count1 = 0
    /\ faults = 0
    /\ path = "metrics"
    /\ data = NoData
    /\ stage = "start"
    /\ search = NoSearch
    /\ build = NoBuild
    /\ built = <<>>
    /\ session_state = NoSession
    /\ evaluated = <<>>

NextMetrics ==
    \/ SmartRAGEnhancer
    \/ evaluate_search_results

SpecMetrics == InitMetrics /\ [][NextMetrics]_vars

\* The calls made so far whose results object was neither None nor empty.
NonEmptyCalls ==
    SelectSeq(evaluated,
              LAMBDA c : ~c.results.none /\ DOMAIN c.results.dict # {})

(* C28 - Metrics history stays aligned: after any sequence of calls of
   evaluate_search_results the three metric lists of the session (queries,
   response_times, confidences) have equal length; each call with a
   non-empty results object appends exactly one entry to each of the three
   lists, and a call with an empty or None results object appends to none
   of them. *)
C28_MetricsAligned ==
    "rag_metrics" \in DOMAIN session_state =>
       LET m == session_state["rag_metrics"]
       IN /\ Len(m.queries) = Len(m.response_times)
          /\ Len(m.response_times) = Len(m.confidences)
          /\ Len(m.queries) = Len(NonEmptyCalls)
          /\ \A j \in DOMAIN m.queries :
                /\ m.queries[j] = NonEmptyCalls[j].query
                /\ m.response_times[j] = NonEmptyCalls[j].response_time

C28_Witness ==
    /\ path = "metrics"
    /\ Len(evaluated) = 2
    /\ evaluated[1].results = NoneValue
    /\ ~evaluated[2].results.none
    /\ DOMAIN evaluated[2].results.dict # {}
    /\ Len(evaluated[2].results.dict.documents) = 2
    /\ Len(session_state["rag_metrics"].queries) = 1
    /\ Len(session_state["rag_metrics"].response_times) = 1
    /\ Len(session_state["rag_metrics"].confidences) = 1

\* A result without hits is appended, the empty dict is not.
C28_WitnessEmptyDict ==
    /\ path = "metrics"
    /\ Len(evaluated) = 2
    /\ evaluated[1].results = ResultsDict(EmptyHits)
    /\ evaluated[2].results = ResultsDict(NoSession)
    /\ Len(session_state["rag_metrics"].queries) = 1
    /\ session_state["rag_metrics"].confidences = <<(<<0, 1>>)>>

----------------------------------------------------------------------------
(* Ranks of the enhanced results *)

Ranks(results) == [j \in DOMAIN results |-> results[j].rank]

(* C29 - Ranks of enhanced results: enhance_search_results assigns rank i to
   the i-th hit in the store's returned order, so for n hits the ranks are
   exactly 1..n; the filter by min_confidence keeps the original rank of
   each surviving result, so the ranks of the filtered list are strictly
   increasing. *)
C29_Ranks ==
    /\ search.mode = "enhanced" =>
          /\ Len(search.results) = Len(search.raw.documents)
          /\ \A j \in DOMAIN search.results :
                /\ search.results[j].rank = j
                /\ search.results[j].content = search.raw.documents[j]
    /\ search.mode = "enhanced_display" =>
          /\ \A j \in DOMAIN search.results :
                LET e == search.results[j]
                IN /\ e.rank \in 1..Len(search.raw.documents)
                   /\ e.content = search.raw.documents[e.rank]
                   /\ e.metadata = search.raw.metadatas[e.rank]
                   /\ e.confidence = DistanceScale - search.raw.distances[e.rank]
          /\ \A j, k \in DOMAIN search.results :
                j < k => search.results[j].rank < search.results[k].rank

C29_Witness ==
    /\ search.mode = "enhanced_display"
    /\ Len(search.raw.documents) = 2
    /\ search.raw.documents[1] # search.raw.documents[2]
    /\ Ranks(search.results) = <<1, 2>>

\* The filter dropped a hit: the survivor keeps its rank.
C29_WitnessFiltered ==
    /\ search.mode = "enhanced_display"
    /\ Len(search.raw.documents) = 2
    /\ Ranks(search.results) = <<1>>

C29_WitnessEnhanced ==
    /\ search.mode = "enhanced"
    /\ Ranks(search.results) = <<1, 2>>

\* The store returns the hits nearest first, so the results that pass the
\* filter are always the first ones: their ranks are 1..m.
C29_FilteredRanksArePrefix ==
    search.mode = "enhanced_display" =>
       \A j \in DOMAIN search.results : search.results[j].rank = j

====
